---- MODULE Spec2Model ----
(***************************************************************************)
(* Asynchronous job engine of the cursor_api service:                      *)
(*   - the in-memory job store (services/job_service.py),                  *)
(*   - the background engine with its local and remote paths               *)
(*     (services/agent_service.py),                                        *)
(*   - the cancel endpoint (api/jobs.py),                                  *)
(*   - the synchronous prompt endpoint and the submit endpoint             *)
(*     (api/agent.py),                                                     *)
(*   - the conversation store as an SQLite key/value table with one        *)
(*     writer lock and per-connection transactions                         *)
(*     (database/operations.py), and the device database                   *)
(*     (services/device_service.py),                                       *)
(*   - the dispatchers' model check (services/agent_service.py,            *)
(*     services/ssh_agent_service.py) and the stream event parser.         *)
(* Every thread (engine run, cancel request, sync request, reaper) is a    *)
(* process whose position is a pc.  An action is a piece of a handler that *)
(* other threads cannot observe half-done: one critical section of         *)
(* jobs_lock, or one statement against a database.                         *)
(* Spec is the job engine (submissions, background tasks, cancels, reaper, *)
(* clock); StoreSpec is the writers of the conversation store (local jobs  *)
(* and synchronous prompts); RequestSpec is the engine and the synchronous *)
(* endpoint under every request a client can send (any prompt, any model); *)
(* CancelSpec is the engine with cancel requests that arrive while the     *)
(* agent runs; ParserSpec is the stream event parser                       *)
(* (utils/stream_json_parser.py), one instance called on any stdout;       *)
(* ReaderSpec is the engine with a client that polls GET /jobs/{job_id}    *)
(* (api/jobs.py, models/job.py); OutputSpec is the engine with agent runs  *)
(* that print any stdout.                                                  *)
(***************************************************************************)
EXTENDS Integers, Sequences, FiniteSets, TLC

\* ---------------------------------------------------------------- bounds
MaxJobs == 2        \* jobs submitted through submit_prompt_async
MaxSync == 1        \* synchronous agent-prompt requests
MaxTime == 2        \* the clock stops after this many hours

\* ------------------------------------------------------------- constants
MaxAgeHours == 1    \* retention of terminal jobs

JobIds  == 1..MaxJobs
SyncIds == 1..MaxSync

\* Sessions: c1 is materialized in the store, c2 is known by id only,
\* r1 is bound to a registered device, r2 to a device id the registry lacks.
Chats       == {"c1", "c2", "r1", "r2"}
JobChats    == {"c1", "r1", "r2"}
SyncChats   == {"c1", "c2"}
Devices     == {"d1", "d2"}

\* JobStatus
PENDING    == "pending"
PROCESSING == "processing"
COMPLETED  == "completed"
FAILED     == "failed"
CANCELLED  == "cancelled"
Terminal   == {COMPLETED, FAILED, CANCELLED}

\* None for the optional fields of a Job
NULL     == "null"
NoTime   == -1
NoBubble == <<"none", 0, 0>>
NoOwner  == <<"nobody", 0>>

\* agent_service.AVAILABLE_MODELS and the default of a request without model
AVAILABLE_MODELS ==
    {"composer-1", "auto", "sonnet-4.5", "sonnet-4.5-thinking",
     "gpt-5", "gpt-5-codex", "gpt-5-codex-high", "grok"}
DefaultModel == "sonnet-4.5-thinking"

\* AgentPromptRequest: prompt is any str, model is an optional str
Prompts == {"", "prompt"}
Models  == {NULL, "gpt-5", "invalid-model-xyz"}
AgentPromptRequest == [prompt : Prompts, model : Models]
\* the request of the documented usage: a prompt and the default model
UsualRequest == [prompt |-> "prompt", model |-> NULL]

\* texts the engine writes
AnswerText        == "answer"
ErrCancelled      == "Cancelled by user"
ErrAgentFailed    == "cursor-agent failed"
ErrInvalidBubble  == "Invalid assistant bubble structure"
ErrException      == "exception"
ErrDeviceNotFound == "Device not found"
ErrRemoteFailed   == "Remote cursor-agent failed"
ErrRemoteExc      == "Remote execution error"
ErrRemoteSlice    == "Remote execution error: 'int' object is not subscriptable"

VARIABLES
    jobs_storage,   \* job_service.jobs_storage: job id -> Job (NoJob if absent)
    next_job,       \* number of jobs created so far (uuid4 is fresh)
    pc,             \* position of the background task of each job
    job,            \* the Job object the background task holds: the fields
                    \* no update changes (chat_id, prompt, model)
    invoked,        \* which dispatcher the engine has called for the job:
                    \* none, local (run_cursor_agent) or remote
                    \* (execute_remote_cursor_agent)
    cancel_pc,      \* cancel request per job: idle, checked (between get_job
                    \* and update_job) or rejected (answered 400)
    sync_pc,        \* position of each synchronous agent-prompt request
    sync_chat,      \* chat of each synchronous request
    sync_request,   \* the AgentPromptRequest of each synchronous request
    spawned,        \* per job or synchronous request: the --model of the
                    \* command handed to subprocess.run ("none": no command)
    kv_chats,       \* committed composerData:<chat> rows: chat -> headers
    kv_bubbles,     \* committed bubbleId:<chat>:<bubble> rows
    txn,            \* uncommitted inserts of each open connection
    db_lock,        \* holder of the SQLite write lock
    remote_chats,   \* device db: remote_chats table
    devices,        \* device db: devices table (id -> last_seen)
    now,            \* wall clock, in hours
    parser,         \* a StreamJsonParser instance: its four fields
    stream,         \* the stream_output of the last parse call, as lines
    parsed,         \* the outcome of the last parse call
    reader,         \* a polling caller of GET /jobs/{job_id}: its position,
                    \* the job it fetched and the response dict it builds
    agent_result,   \* per job: what the dispatcher returned to the engine
                    \* (result["success"]) and the ai_response_text the
                    \* engine took from the parsed stdout
    bubble,         \* a turn record handed to validate_bubble_structure and
                    \* the validator's answer
    composer        \* the JSON document of one composerData row, before and
                    \* after update_chat_metadata

vars == <<jobs_storage, next_job, pc, job, invoked, cancel_pc, sync_pc, sync_chat,
          sync_request, spawned, kv_chats, kv_bubbles, txn, db_lock, remote_chats,
          devices, now, parser, stream, parsed, reader, agent_result, bubble,
          composer>>

jobVars    == <<jobs_storage, next_job, pc, job, invoked>>
storeVars  == <<kv_chats, kv_bubbles, txn, db_lock>>
deviceVars == <<remote_chats, devices>>
syncVars   == <<sync_pc, sync_chat, sync_request>>
parserVars == <<parser, stream, parsed>>
readerVars == <<reader>>
recordVars == <<bubble, composer>>
\* the job engine, the synchronous path, the stores and the clock
engineVars == <<jobVars, spawned, agent_result, cancel_pc, syncVars, storeVars,
                deviceVars, now>>
\* what the parser and the polling reader leave alone
otherVars  == <<engineVars, recordVars>>

\* owners of connections and of turn records
JobOwner(j)  == <<"job", j>>
SyncOwner(s) == <<"sync", s>>
Owners == {JobOwner(j) : j \in JobIds} \cup {SyncOwner(s) : s \in SyncIds}

\* uuid4(): a fresh id, modelled as the pair (creator, role)
BubbleId(owner, type) == <<owner[1], owner[2], type>>

\* ------------------------------------------------------------ job store

\* the background task has not fetched its Job yet
NoJobRef == [prompt |-> NULL, model |-> NULL, chat_id |-> NULL]

\* dict.get(job_id) is None
NoJob == [status |-> "absent"]
Stored(j) == jobs_storage[j].status # "absent"

\* Job(job_id, chat_id, prompt, status=PENDING, created_at=now, model);
\* a missing model becomes the default
create_job(chat_id, prompt, model) ==
    [prompt |-> prompt,
     model |-> IF model = NULL THEN DefaultModel ELSE model,
     chat_id |-> chat_id, status |-> PENDING,
     started_at |-> NoTime, completed_at |-> NoTime,
     result |-> NULL, error |-> NULL,
     user_bubble_id |-> NoBubble, assistant_bubble_id |-> NoBubble]

\* the response dict of get_job_details before anything is copied into it
NoData ==
    [prompt |-> NULL, model |-> NULL, chat_id |-> NULL, status |-> "unread",
     started_at |-> NoTime, completed_at |-> NoTime, result |-> NULL, error |-> NULL,
     user_bubble_id |-> NoBubble, assistant_bubble_id |-> NoBubble,
     elapsed_seconds |-> "None", copied |-> 0]

\* setattr for every key of updates the Job has
SetAttrs(j, updates) ==
    [k \in DOMAIN j |-> IF k \in DOMAIN updates THEN updates[k] ELSE j[k]]

\* an update that stores a new entry when the id is not in the store
update_job_upserts(job_id, updates) ==
    [jobs_storage EXCEPT ![job_id] =
        SetAttrs(IF Stored(job_id) THEN @ ELSE create_job(NULL, NULL, NULL), updates)]

\* update_job: one critical section; a job that is not stored is left alone
update_job(job_id, updates) ==
    IF Stored(job_id)
    THEN [jobs_storage EXCEPT ![job_id] = SetAttrs(@, updates)]
    ELSE jobs_storage

\* a cleanup that looks at completed_at only
ToRemove_ignores_status(max_age_hours) ==
    {j \in JobIds : /\ Stored(j)
                    /\ jobs_storage[j].completed_at # NoTime
                    /\ jobs_storage[j].completed_at < now - max_age_hours}

\* cleanup_old_jobs: the ids it deletes
ToRemove(max_age_hours) ==
    {j \in JobIds : /\ Stored(j)
                    /\ jobs_storage[j].status \in {COMPLETED, FAILED, CANCELLED}
                    /\ jobs_storage[j].completed_at # NoTime
                    /\ jobs_storage[j].completed_at < now - max_age_hours}

\* ------------------------------------------------------------ dispatchers

\* run_cursor_agent: the --model of the command it hands to subprocess.run;
\* "none" when it raises ValueError before (model outside the allow-list)
run_cursor_agent(model) ==
    LET m == IF model = NULL THEN DefaultModel ELSE model
    IN IF m \notin AVAILABLE_MODELS THEN "none" ELSE m

\* execute_remote_cursor_agent: the --model of the cursor-agent command it
\* wraps in the ssh command handed to subprocess.run
execute_remote_cursor_agent(model) ==
    IF model = NULL THEN DefaultModel ELSE model

\* ---------------------------------------------------- conversation store

RequiredFields ==
    {"v", "type", "text", "bubbleId", "createdAt",
     "approximateLintErrors", "lints", "capabilities", "capabilityStatuses"}

\* an envelope that carries the text in its rich text only
create_bubble_data_rich_text_only(bubble_id, message_type, text) ==
    [type |-> message_type, text |-> "", v |-> 3, bubbleId |-> bubble_id,
     createdAt |-> "iso", approximateLintErrors |-> <<>>, lints |-> <<>>,
     capabilities |-> <<>>, capabilityStatuses |-> "empty",
     tokenCount |-> <<0, 0>>, richText |-> text, isAgentic |-> (message_type = 1),
     requestId |-> "uuid", checkpointId |-> "uuid"]

\* create_bubble_data: the full envelope (the fields the validator looks at,
\* the identifiers and the rich text); "v" is the "_v" key.  No code of the
\* engine reads createdAt, requestId or checkpointId back, so each is one
\* opaque value.
create_bubble_data(bubble_id, message_type, text) ==
    [type |-> message_type, text |-> text, v |-> 3, bubbleId |-> bubble_id,
     createdAt |-> "iso", approximateLintErrors |-> <<>>, lints |-> <<>>,
     capabilities |-> <<>>, capabilityStatuses |-> "empty",
     tokenCount |-> <<0, 0>>, richText |-> text, isAgentic |-> (message_type = 1),
     requestId |-> "uuid", checkpointId |-> "uuid"]

validate_bubble_structure(bubble_data) ==
    \A field \in RequiredFields : field \in DOMAIN bubble_data

\* a dict without some of its keys
Without(dict, keys) == [key \in DOMAIN dict \ keys |-> dict[key]]

\* no turn record has been handed to the validator yet
NotValidated == [data |-> <<>>, checked |-> FALSE, valid |-> FALSE]

\* json.dumps of the empty Lexical document, as one opaque value
EmptyRichText == "empty-document"

\* ensure_chat_exists: the minimal metadata it creates for a missing chat
chat_metadata(chat_id, now_ms) ==
    [text |-> "", v |-> 10, createdAt |-> now_ms, richText |-> EmptyRichText,
     composerId |-> chat_id, name |-> "Untitled", hasLoaded |-> TRUE,
     fullConversationHeadersOnly |-> <<>>, lastUpdatedAt |-> now_ms, isArchived |-> FALSE, isDraft |-> FALSE,
     totalLinesAdded |-> 0, totalLinesRemoved |-> 0]

\* update_chat_metadata on the JSON document of the row: the fields it
\* ensures, the headers it appends and the timestamp it sets
Ensured == {"v", "hasLoaded", "text", "richText"}

metadata_after_update(metadata, new_bubble_ids, now_ms) ==
    [key \in DOMAIN metadata \cup Ensured
                \cup {"fullConversationHeadersOnly", "lastUpdatedAt"} |->
        CASE key = "fullConversationHeadersOnly" ->
                (IF key \in DOMAIN metadata THEN metadata[key] ELSE <<>>)
                    \o new_bubble_ids
          [] key = "lastUpdatedAt" -> now_ms
          [] key \in DOMAIN metadata -> metadata[key]
          [] key = "v" -> 10
          [] key = "hasLoaded" -> TRUE
          [] key = "text" -> ""
          [] OTHER -> EmptyRichText]

\* no composerData document has been looked at yet
NoComposer == [metadata |-> <<>>, stored |-> <<>>, updated |-> FALSE]

\* a row bubbleId:<chat_id>:<bubble_id>
Row(chat_id, bubble_data) == [chat_id |-> chat_id, value |-> bubble_data]

NoMetadata == [exists |-> FALSE, headers |-> <<>>]

\* sqlite: a connection can write when no other connection holds the lock
CanWrite(owner) == db_lock \in {NoOwner, owner}

\* ensure_chat_exists: the composerData row after the call (it commits)
ensure_chat_exists(chat_id) ==
    IF kv_chats[chat_id].exists
    THEN kv_chats
    ELSE [kv_chats EXCEPT ![chat_id] = [exists |-> TRUE, headers |-> <<>>]]

\* a save that commits on its own, as ensure_chat_exists does
save_message_autocommit(owner, chat_id, bubble_data) ==
    [pending   |-> {},
     committed |-> kv_bubbles \cup txn[owner] \cup {Row(chat_id, bubble_data)}]

\* save_message_to_db: an INSERT inside the connection's open transaction;
\* the row stays uncommitted
save_message_to_db(owner, chat_id, bubble_data) ==
    [pending   |-> txn[owner] \cup {Row(chat_id, bubble_data)},
     committed |-> kv_bubbles]

\* a failure exit that commits where it should roll back
rollback_commits(owner) == kv_bubbles \cup txn[owner]

\* conn.rollback(): the connection's uncommitted rows are dropped
rollback(owner) == kv_bubbles

\* a commit that leaves only the connection's own rows in the table
commit_replaces_table(w) == w.pending

\* conn.commit(): the connection's uncommitted rows become visible
commit(w) == w.committed \cup w.pending

\* a metadata update that stores the new headers in place of the old list
update_chat_metadata_overwrites(chat_id, new_bubble_ids) ==
    [kv_chats EXCEPT ![chat_id].headers = new_bubble_ids]

\* update_chat_metadata: append the new headers to fullConversationHeadersOnly
update_chat_metadata(chat_id, new_bubble_ids) ==
    [kv_chats EXCEPT ![chat_id].headers = @ \o new_bubble_ids]

Header(bubble_id, type) == [type |-> type, bubbleId |-> bubble_id]

\* ------------------------------------------------ stream event parser

MaxLines == 2       \* lines of one stream_output
MaxOutputLines == 1 \* lines of the stdout of an agent run of a job

\* Python values of the parser: None, a str (a sequence of characters), an
\* int (by its digits), and "missing" for a key a JSON object does not have
PyNone  == [s |-> <<>>, tag |-> "None"]
Missing == [s |-> <<>>, tag |-> "missing"]
Str(s)  == [s |-> s, tag |-> "str"]
Num(s)  == [s |-> s, tag |-> "int"]

\* dict.get(key, default)
get(value, default) == IF value.tag = "missing" THEN default ELSE value

\* bool(value) of None, a str or an int
Truthy(value) ==
    \/ value.tag = "str" /\ value.s # <<>>
    \/ value.tag = "int" /\ value.s # <<"0">>

\* A line of stdout, by what json.loads makes of it: "blank" is the empty
\* line, "malformed" is no JSON, "number" is JSON but no object, "object"
\* is an event.  nested is the event's 'message' or 'tool_call' member
\* (missing, null, or a dict; a tool_call dict is "dict" when it holds a
\* shellToolCall and "readToolCall" when it holds that tool instead); text is
\* the 'text' / 'result' member, or the text of the one content item of a
\* message.
Line(kind, type, subtype, nested, text) ==
    [type |-> type, text |-> text, kind |-> kind, subtype |-> subtype, nested |-> nested]

StreamLines ==
    {Line("blank", "", "", "missing", Missing),
     Line("malformed", "", "", "missing", Missing),
     Line("number", "", "", "missing", Missing),
     Line("object", "system", "init", "missing", Missing),
     Line("object", "assistant", "", "dict", Str(<<"A">>)),
     Line("object", "assistant", "", "dict", Str(<<"B">>)),
     Line("object", "assistant", "", "null", Missing),
     Line("object", "result", "success", "missing", Str(<<"R">>)),
     Line("object", "result", "success", "missing", Str(<<>>)),
     Line("object", "result", "success", "missing", Num(<<"5">>)),
     Line("object", "result", "error", "missing", Str(<<"E">>)),
     Line("object", "thinking", "delta", "missing", Str(<<"T">>)),
     Line("object", "thinking", "completed", "missing", Str(<<"U">>)),
     Line("object", "tool_call", "completed", "dict", Missing),
     Line("object", "tool_call", "started", "dict", Missing),
     Line("object", "tool_call", "completed", "readToolCall", Missing)}

\* the stdout of an agent run: up to MaxLines lines
RECURSIVE StreamsUpTo(_)
StreamsUpTo(n) ==
    IF n = 0 THEN {<<>>}
    ELSE LET shorter == StreamsUpTo(n - 1)
         IN shorter \cup {Append(lines, line) : lines \in shorter, line \in StreamLines}

Streams == StreamsUpTo(MaxLines)

\* the stdout a dispatcher captures from an agent run
Outputs == StreamsUpTo(MaxOutputLines)

\* StreamJsonParser.__init__
NewParser ==
    [thinking_parts |-> <<>>, tool_calls |-> <<>>, final_result |-> PyNone,
     assistant_messages |-> <<>>]

\* a reset that forgets one of the four fields
_reset_keeps_messages(self) ==
    [thinking_parts |-> <<>>, tool_calls |-> <<>>, final_result |-> PyNone,
     assistant_messages |-> self.assistant_messages]

\* _reset
_reset(self) ==
    [thinking_parts |-> <<>>, tool_calls |-> <<>>, final_result |-> PyNone,
     assistant_messages |-> <<>>]

\* the handlers return the parser after the event and whether they raised
Done(self)   == [self |-> self, raised |-> FALSE]
Raised(self) == [self |-> self, raised |-> TRUE]

_process_thinking(self, event) ==
    LET text == get(event.text, Str(<<>>))
    IN IF event.subtype = "delta"
       THEN IF Truthy(text)
            THEN Done([self EXCEPT !.thinking_parts = Append(@, text.s)])
            ELSE Done(self)
       ELSE IF event.subtype = "completed"
       THEN IF Truthy(text) /\ self.thinking_parts = <<>>
            THEN Done([self EXCEPT !.thinking_parts = <<text.s>>])
            ELSE Done(self)
       ELSE Done(self)

\* the tool_info of a shellToolCall with args and a successful result
ShellToolInfo ==
    [result |-> [exit_code |-> 0, stdout |-> "", stderr |-> "", execution_time_ms |-> 0],
     name |-> "run_terminal_cmd", command |-> "ls",
     explanation |-> "Execute shell command: ls",
     arguments |-> [command |-> "ls", working_directory |-> ""]]

\* event.get('tool_call', {}).get(...): a null tool_call has no get; only a
\* shellToolCall makes a tool_info
_process_tool_call(self, event) ==
    IF event.subtype # "completed" THEN Done(self)
    ELSE IF event.nested = "null" THEN Raised(self)
    ELSE IF event.nested = "dict"
         THEN Done([self EXCEPT !.tool_calls = Append(@, ShellToolInfo)])
         ELSE Done(self)

\* event.get('message', {}).get('content', []): a null message has no get
_process_assistant_message(self, event) ==
    IF event.nested = "null" THEN Raised(self)
    ELSE IF event.nested = "dict" /\ Truthy(get(event.text, Str(<<>>)))
         THEN Done([self EXCEPT !.assistant_messages = Append(@, event.text.s)])
         ELSE Done(self)

_process_result(self, event) ==
    IF event.subtype = "success"
    THEN Done([self EXCEPT !.final_result = get(event.text, Str(<<>>))])
    ELSE Done(self)

\* _process_event: event.get raises AttributeError unless event is a dict
_process_event(self, event) ==
    IF event.kind # "object" THEN Raised(self)
    ELSE CASE event.type = "thinking"  -> _process_thinking(self, event)
           [] event.type = "tool_call" -> _process_tool_call(self, event)
           [] event.type = "assistant" -> _process_assistant_message(self, event)
           [] event.type = "result"    -> _process_result(self, event)
           [] OTHER                    -> Done(self)

\* stream_output.strip().split('\n'): blank lines at both ends are gone
RECURSIVE lstrip(_)
lstrip(lines) ==
    IF lines # <<>> /\ Head(lines).kind = "blank" THEN lstrip(Tail(lines)) ELSE lines

RECURSIVE rstrip(_)
rstrip(lines) ==
    IF lines # <<>> /\ lines[Len(lines)].kind = "blank"
    THEN rstrip(SubSeq(lines, 1, Len(lines) - 1))
    ELSE lines

strip_split(stream_output) == rstrip(lstrip(stream_output))

\* a loop that skips empty lines only
Skipped_blank_only(line) == line.kind = "blank"

\* the lines the loop passes over: not line.strip(), and the lines on which
\* json.loads raises JSONDecodeError
Skipped(line) == line.kind \in {"blank", "malformed"}

\* the loop of parse_stream: skip empty lines and lines json.loads refuses
\* (only JSONDecodeError is caught); any other exception leaves the loop
RECURSIVE parse_lines(_, _)
parse_lines(self, lines) ==
    IF lines = <<>> THEN Done(self)
    ELSE LET line == Head(lines)
         IN IF Skipped(line)
            THEN parse_lines(self, Tail(lines))
            ELSE LET r == _process_event(self, line)
                 IN IF r.raised THEN r ELSE parse_lines(r.self, Tail(lines))

\* sep.join(parts)
RECURSIVE join(_, _)
join(sep, parts) ==
    IF parts = <<>> THEN <<>>
    ELSE IF Len(parts) = 1 THEN parts[1]
    ELSE parts[1] \o sep \o join(sep, Tail(parts))

\* no dict is returned
NoResult ==
    [text |-> PyNone, tool_calls |-> <<>>, assistant_messages |-> <<>>,
     thinking |-> PyNone]

\* a _build_result that returns the text as it found it, None included
_build_result_keeps_none(self) ==
    LET thinking == IF self.thinking_parts # <<>>
                    THEN Str(join(<<>>, self.thinking_parts)) ELSE PyNone
        text == IF ~Truthy(self.final_result) /\ self.assistant_messages # <<>>
                THEN Str(join(<<"\n\n">>, self.assistant_messages))
                ELSE self.final_result
    IN [text |-> text, tool_calls |-> self.tool_calls,
        assistant_messages |-> self.assistant_messages, thinking |-> thinking]

\* _build_result (tool_calls: the empty list stands for None)
_build_result(self) ==
    LET thinking == IF self.thinking_parts # <<>>
                    THEN Str(join(<<>>, self.thinking_parts)) ELSE PyNone
        text1 == IF ~Truthy(self.final_result) /\ self.assistant_messages # <<>>
                 THEN Str(join(<<"\n\n">>, self.assistant_messages))
                 ELSE self.final_result
        text == IF ~Truthy(text1) THEN Str(<<>>) ELSE text1
    IN [text |-> text, tool_calls |-> self.tool_calls,
        assistant_messages |-> self.assistant_messages, thinking |-> thinking]

\* parse_stream: the instance afterwards, and the dict returned or raised
parse_stream(self, stream_output) ==
    LET r == parse_lines(_reset(self), strip_split(stream_output))
    IN [result |-> IF r.raised THEN NoResult ELSE _build_result(r.self),
        self |-> r.self, raised |-> r.raised]

\* ------------------------------------------------- the agent's response

\* result["stdout"].strip(): the raw output, as one opaque str
RawText(stream_output) ==
    IF strip_split(stream_output) = <<>> THEN Str(<<>>) ELSE Str(<<"stdout">>)

\* parsed.get("text", result["stdout"].strip()): run_cursor_agent leaves
\* parsed_content out when parse_cursor_agent_output raises, and the remote
\* path, which gets no parsed_content, parses the stdout itself and takes {}
\* when that raises
ai_response_text(stream_output) ==
    LET r == parse_stream(NewParser, stream_output)
    IN IF r.raised THEN RawText(stream_output) ELSE r.result.text

\* the characters of a value, written out as json.dumps and the Job keep them
RECURSIVE Chars(_)
Chars(s) == IF s = <<>> THEN "" ELSE Head(s) \o Chars(Tail(s))

\* a Python value as the job's result field and the turn record's text hold
\* it: None, or the value's characters (the texts here are shorter than the
\* 100 characters of a preview)
Text(value) == IF value = PyNone THEN NULL ELSE Chars(value.s)

\* the dispatcher has not returned
NoAgentResult == [ai_response_text |-> PyNone, success |-> FALSE, returned |-> FALSE]

\* what the engine holds once the dispatcher has returned
AgentResult(success, stream_output) ==
    [ai_response_text |-> IF success THEN ai_response_text(stream_output) ELSE PyNone,
     success |-> success, returned |-> TRUE]

\* the stdout of the documented usage: one result event with the answer
UsualOutput == <<Line("object", "result", "success", "missing", Str(<<"R">>))>>

\* ---------------------------------------------------------------- Init

Init ==
    /\ jobs_storage = [j \in JobIds |-> NoJob]
    /\ next_job = 0
    /\ pc = [j \in JobIds |-> "none"]
    /\ job = [j \in JobIds |-> NoJobRef]
    /\ invoked = [j \in JobIds |-> "none"]
    /\ cancel_pc = [j \in JobIds |-> "idle"]
    /\ sync_pc = [s \in SyncIds |-> "idle"]
    /\ sync_chat = [s \in SyncIds |-> NULL]
    /\ sync_request = [s \in SyncIds |-> UsualRequest]
    /\ spawned = [o \in Owners |-> "none"]
    /\ kv_chats = [c \in Chats |-> IF c = "c1" THEN [exists |-> TRUE, headers |-> <<>>]
                                   ELSE NoMetadata]
    /\ kv_bubbles = {}
    /\ txn = [o \in Owners |-> {}]
    /\ db_lock = NoOwner
    /\ remote_chats = [c \in Chats |->
            CASE c = "r1" -> [bound |-> TRUE, device_id |-> "d1", message_count |-> 0,
                              last_message_preview |-> NULL]
              [] c = "r2" -> [bound |-> TRUE, device_id |-> "d2", message_count |-> 0,
                              last_message_preview |-> NULL]
              [] OTHER    -> [bound |-> FALSE, device_id |-> NULL, message_count |-> 0,
                              last_message_preview |-> NULL]]
    /\ devices = [d \in Devices |-> IF d = "d1"
                                    THEN [registered |-> TRUE, last_seen |-> NoTime]
                                    ELSE [registered |-> FALSE, last_seen |-> NoTime]]
    /\ now = 0
    /\ parser = NewParser
    /\ stream = <<>>
    /\ parsed = [result |-> NoResult, raised |-> FALSE, called |-> FALSE,
                 reused |-> FALSE]
    /\ reader = [pc |-> "idle", job_id |-> 0, data |-> NoData]
    /\ agent_result = [j \in JobIds |-> NoAgentResult]
    /\ bubble = NotValidated
    /\ composer = NoComposer

\* ------------------------------------------------------- submit endpoint

\* submit_prompt_async: materialize the chat, create the job from the
\* request as it came, schedule the background task.  (When the chat is missing and the store is locked the
\* endpoint answers 500 and nothing changes.)
Submit(chat_id, request) ==
    /\ next_job < MaxJobs
    /\ kv_chats[chat_id].exists \/ db_lock = NoOwner
    /\ LET j == next_job + 1 IN
        /\ kv_chats' = ensure_chat_exists(chat_id)
        /\ jobs_storage' = [jobs_storage EXCEPT ![j] =
                create_job(chat_id, request.prompt, request.model)]
        /\ next_job' = j
        /\ pc' = [pc EXCEPT ![j] = "sched"]
    /\ UNCHANGED <<job, invoked, spawned, cancel_pc, syncVars, kv_bubbles, txn, db_lock,
                   deviceVars, now, parserVars, readerVars, recordVars, agent_result>>

\* ------------------------------------------------------ background engine

Goto(j, p) == pc' = [pc EXCEPT ![j] = p]

\* execute_job_in_background: get_job, then get_remote_chat.  An error of
\* the device database in get_remote_chat leaves the function through no
\* handler: the task ends.
Lookup(j) ==
    /\ pc[j] = "sched"
    /\ IF ~Stored(j)
       THEN Goto(j, "done") /\ UNCHANGED job
       ELSE /\ job' = [job EXCEPT ![j] =
                        [prompt  |-> jobs_storage[j].prompt,
                         model   |-> jobs_storage[j].model,
                         chat_id |-> jobs_storage[j].chat_id]]
            /\ \/ Goto(j, "done")
               \/ Goto(j, IF remote_chats[jobs_storage[j].chat_id].bound
                          THEN "r_claim" ELSE "l_claim")
    /\ UNCHANGED <<jobs_storage, next_job, invoked, spawned, cancel_pc, syncVars,
                   storeVars, deviceVars, now, parserVars, readerVars, recordVars, agent_result>>

\* a claim step that sets the status and leaves started_at alone
MarkProcessing_without_started_at(j) ==
    jobs_storage' = update_job(j, [status |-> PROCESSING])

\* update_job(status=PROCESSING, started_at=now)
MarkProcessing(j) ==
    jobs_storage' = update_job(j, [status |-> PROCESSING, started_at |-> now])

\* a failure exit that records the error on a job it calls completed
MarkFailed_as_completed(j, error) ==
    jobs_storage' = update_job(j, [status |-> COMPLETED, completed_at |-> now,
                                   error |-> error])

\* update_job(status=FAILED, completed_at=now, error=...)
MarkFailed(j, error) ==
    jobs_storage' = update_job(j, [status |-> FAILED, completed_at |-> now,
                                   error |-> error])

\* _execute_local_job: mark as processing
LClaim(j) ==
    /\ pc[j] = "l_claim"
    /\ MarkProcessing(j)
    /\ Goto(j, "l_open")
    /\ UNCHANGED <<next_job, job, invoked, spawned, cancel_pc, syncVars, storeVars,
                   deviceVars, now, parserVars, readerVars, recordVars, agent_result>>

\* get_db_connection (503 when the database file is missing) and
\* ensure_chat_exists (an INSERT and a commit when the chat is missing,
\* "database is locked" when another connection holds the write lock)
LOpen(j) ==
    /\ pc[j] = "l_open"
    /\ \/ Goto(j, "l_fail_exc") /\ UNCHANGED kv_chats
       \/ IF kv_chats[job[j].chat_id].exists \/ CanWrite(JobOwner(j))
          THEN kv_chats' = ensure_chat_exists(job[j].chat_id) /\ Goto(j, "l_save_user")
          ELSE UNCHANGED kv_chats /\ Goto(j, "l_fail_exc")
    /\ UNCHANGED <<jobs_storage, next_job, job, invoked, spawned, cancel_pc, syncVars,
                   kv_bubbles, txn, db_lock, deviceVars, now, parserVars, readerVars, recordVars, agent_result>>

\* BEGIN TRANSACTION, create and validate the user bubble, save it.  The
\* INSERT takes the write lock or raises after the busy timeout.
LSaveUser(j) ==
    /\ pc[j] = "l_save_user"
    /\ LET o == JobOwner(j)
           user_bubble == create_bubble_data(BubbleId(o, 1), 1, job[j].prompt)
           w == save_message_to_db(o, job[j].chat_id, user_bubble)
       IN IF validate_bubble_structure(user_bubble) /\ CanWrite(o)
          THEN /\ txn' = [txn EXCEPT ![o] = w.pending]
               /\ kv_bubbles' = w.committed
               /\ db_lock' = o
               /\ Goto(j, "l_agent")
          ELSE /\ UNCHANGED <<txn, kv_bubbles, db_lock>>
               /\ Goto(j, "l_fail_exc")
    /\ UNCHANGED <<jobs_storage, next_job, job, invoked, spawned, cancel_pc, syncVars,
                   kv_chats, deviceVars, now, parserVars, readerVars, recordVars, agent_result>>

\* run_cursor_agent returns.  Not success (non-zero exit, timeout, invalid
\* model, spawn error): rollback and close.
LAgent(j, stream_output) ==
    /\ pc[j] = "l_agent"
    /\ invoked' = [invoked EXCEPT ![j] = "local"]
    /\ spawned' = [spawned EXCEPT ![JobOwner(j)] = run_cursor_agent(job[j].model)]
    /\ \E success \in {ok \in BOOLEAN : ok => run_cursor_agent(job[j].model) # "none"} :
        /\ agent_result' = [agent_result EXCEPT ![j] =
                                AgentResult(success, stream_output)]
        /\ IF success
           THEN Goto(j, "l_persist") /\ UNCHANGED <<kv_bubbles, txn, db_lock>>
           ELSE /\ kv_bubbles' = rollback(JobOwner(j))
                /\ txn' = [txn EXCEPT ![JobOwner(j)] = {}]
                /\ db_lock' = NoOwner
                /\ Goto(j, "l_fail_agent")
    /\ UNCHANGED <<jobs_storage, next_job, job, cancel_pc, syncVars, kv_chats,
                   deviceVars, now, parserVars, readerVars, recordVars>>

\* create and validate the assistant bubble, save it, update the chat
\* metadata, commit, close.  An invalid bubble: rollback, close.  A store
\* error (missing chat row, failed commit): rollback, close, re-raise.
LPersist(j) ==
    /\ pc[j] = "l_persist"
    /\ LET o == JobOwner(j)
           assistant_bubble == create_bubble_data(BubbleId(o, 2), 2,
                                    Text(agent_result[j].ai_response_text))
           w == save_message_to_db(o, job[j].chat_id, assistant_bubble)
       IN IF ~validate_bubble_structure(assistant_bubble)
          THEN /\ kv_bubbles' = rollback(o)
               /\ UNCHANGED kv_chats
               /\ Goto(j, "l_fail_valid")
          ELSE \/ /\ kv_chats[job[j].chat_id].exists
                  /\ kv_chats' = update_chat_metadata(job[j].chat_id,
                                    <<Header(BubbleId(o, 1), 1), Header(BubbleId(o, 2), 2)>>)
                  /\ kv_bubbles' = commit(w)
                  /\ Goto(j, "l_complete")
               \/ /\ kv_bubbles' = rollback(o)
                  /\ UNCHANGED kv_chats
                  /\ Goto(j, "l_fail_exc")
    /\ txn' = [txn EXCEPT ![JobOwner(j)] = {}]
    /\ db_lock' = NoOwner
    /\ UNCHANGED <<jobs_storage, next_job, job, invoked, spawned, cancel_pc, syncVars,
                   deviceVars, now, parserVars, readerVars, recordVars, agent_result>>

\* update_job(status=COMPLETED, completed_at, result, bubble ids)
LComplete(j) ==
    /\ pc[j] = "l_complete"
    /\ jobs_storage' = update_job(j,
            [status |-> COMPLETED, completed_at |-> now,
             result |-> Text(agent_result[j].ai_response_text),
             user_bubble_id |-> BubbleId(JobOwner(j), 1),
             assistant_bubble_id |-> BubbleId(JobOwner(j), 2)])
    /\ Goto(j, "done")
    /\ UNCHANGED <<next_job, job, invoked, spawned, cancel_pc, syncVars, storeVars,
                   deviceVars, now, parserVars, readerVars, recordVars, agent_result>>

\* the error text of each failure exit
ErrorAt(p) ==
    CASE p = "l_fail_agent"  -> ErrAgentFailed
      [] p = "l_fail_valid"  -> ErrInvalidBubble
      [] p = "l_fail_exc"    -> ErrException
      [] p = "r_fail_device" -> ErrDeviceNotFound
      [] p = "r_fail_exec"   -> ErrRemoteFailed
      [] p = "r_fail_exc"    -> ErrRemoteExc
      [] p = "r_fail_slice"  -> ErrRemoteSlice

\* a failure exit that marks the job failed and schedules the task again
LFail_retries(j) ==
    /\ pc[j] \in {"l_fail_agent", "l_fail_valid", "l_fail_exc"}
    /\ MarkFailed(j, ErrorAt(pc[j]))
    /\ Goto(j, "sched")
    /\ UNCHANGED <<next_job, job, invoked, spawned, cancel_pc, syncVars, storeVars,
                   deviceVars, now, parserVars, readerVars, recordVars, agent_result>>

\* the places where the local path marks the job failed: after a failed
\* agent run, after an invalid assistant bubble, in the outer handler
LFail(j) ==
    /\ pc[j] \in {"l_fail_agent", "l_fail_valid", "l_fail_exc"}
    /\ MarkFailed(j, ErrorAt(pc[j]))
    /\ Goto(j, "done")
    /\ UNCHANGED <<next_job, job, invoked, spawned, cancel_pc, syncVars, storeVars,
                   deviceVars, now, parserVars, readerVars, recordVars, agent_result>>

\* _execute_remote_job: mark as processing
RClaim(j) ==
    /\ pc[j] = "r_claim"
    /\ MarkProcessing(j)
    /\ Goto(j, "r_device")
    /\ UNCHANGED <<next_job, job, invoked, spawned, cancel_pc, syncVars, storeVars,
                   deviceVars, now, parserVars, readerVars, recordVars, agent_result>>

\* get_device: the row of the device, or None
get_device(device_id) ==
    IF devices[device_id].registered THEN device_id ELSE NULL

\* get_device(remote_chat.device_id); an error of the device database goes
\* to the outer handler
RDevice(j) ==
    /\ pc[j] = "r_device"
    /\ \/ Goto(j, "r_fail_exc")
       \/ IF get_device(remote_chats[job[j].chat_id].device_id) = NULL
          THEN Goto(j, "r_fail_device")
          ELSE Goto(j, "r_exec")
    /\ UNCHANGED <<jobs_storage, next_job, job, invoked, spawned, cancel_pc, syncVars,
                   storeVars, deviceVars, now, parserVars, readerVars, recordVars, agent_result>>

\* execute_remote_cursor_agent returns (ssh exit code, timeout, error)
RExec(j, stream_output) ==
    /\ pc[j] = "r_exec"
    /\ invoked' = [invoked EXCEPT ![j] = "remote"]
    /\ spawned' = [spawned EXCEPT ![JobOwner(j)] =
                        execute_remote_cursor_agent(job[j].model)]
    /\ \E success \in BOOLEAN :
        /\ agent_result' = [agent_result EXCEPT ![j] =
                                AgentResult(success, stream_output)]
        /\ Goto(j, IF success THEN "r_meta" ELSE "r_fail_exec")
    /\ UNCHANGED <<jobs_storage, next_job, job, cancel_pc, syncVars, storeVars,
                   deviceVars, now, parserVars, readerVars, recordVars>>

\* ai_response_text[:100] if ai_response_text else None: a text that is
\* true and no str has no slice (TypeError)
Sliceable(text) == ~Truthy(text) \/ text.tag = "str"

\* update_remote_chat_metadata(message_count_delta=2, last_message_preview):
\* one UPDATE that adds to message_count and sets the preview unless it is
\* None
update_remote_chat_metadata(chat_id, message_count_delta, last_message_preview) ==
    [remote_chats EXCEPT
        ![chat_id].message_count = @ + message_count_delta,
        ![chat_id].last_message_preview =
            IF last_message_preview = NULL THEN @ ELSE last_message_preview]

\* the preview of the response text, then update_remote_chat_metadata; the
\* TypeError of the slice and an error of the device database go to the
\* outer handler
RMeta(j) ==
    /\ pc[j] = "r_meta"
    /\ IF ~Sliceable(agent_result[j].ai_response_text)
       THEN Goto(j, "r_fail_slice") /\ UNCHANGED remote_chats
       ELSE \/ /\ remote_chats' = update_remote_chat_metadata(job[j].chat_id, 2,
                        IF Truthy(agent_result[j].ai_response_text)
                        THEN Text(agent_result[j].ai_response_text) ELSE NULL)
               /\ Goto(j, "r_seen")
            \/ Goto(j, "r_fail_exc") /\ UNCHANGED remote_chats
    /\ UNCHANGED <<jobs_storage, next_job, job, invoked, spawned, cancel_pc, syncVars,
                   storeVars, devices, now, parserVars, readerVars, recordVars, agent_result>>

\* update_device_last_seen(remote_chat.device_id); an error of the device
\* database goes to the outer handler
RLastSeen(j) ==
    /\ pc[j] = "r_seen"
    /\ \/ /\ devices' = [devices EXCEPT
                    ![remote_chats[job[j].chat_id].device_id].last_seen = now]
          /\ Goto(j, "r_complete")
       \/ Goto(j, "r_fail_exc") /\ UNCHANGED devices
    /\ UNCHANGED <<jobs_storage, next_job, job, invoked, spawned, cancel_pc, syncVars,
                   storeVars, remote_chats, now, parserVars, readerVars, recordVars, agent_result>>

\* update_job(status=COMPLETED, completed_at, result): no bubble ids
RComplete(j) ==
    /\ pc[j] = "r_complete"
    /\ jobs_storage' = update_job(j,
            [status |-> COMPLETED, completed_at |-> now,
             result |-> Text(agent_result[j].ai_response_text)])
    /\ Goto(j, "done")
    /\ UNCHANGED <<next_job, job, invoked, spawned, cancel_pc, syncVars, storeVars,
                   deviceVars, now, parserVars, readerVars, recordVars, agent_result>>

\* the places where the remote path marks the job failed: device not found,
\* failed ssh run, the outer handler
RFail(j) ==
    /\ pc[j] \in {"r_fail_device", "r_fail_exec", "r_fail_exc", "r_fail_slice"}
    /\ MarkFailed(j, ErrorAt(pc[j]))
    /\ Goto(j, "done")
    /\ UNCHANGED <<next_job, job, invoked, spawned, cancel_pc, syncVars, storeVars,
                   deviceVars, now, parserVars, readerVars, recordVars, agent_result>>

\* --------------------------------------------------------- cancel endpoint

\* the statuses cancel_job refuses
Uncancellable == {COMPLETED, FAILED}

\* cancel_job, first half: get_job, 404 if unknown, 400 if completed/failed
CancelCheck(j) ==
    /\ j <= next_job
    /\ cancel_pc[j] # "checked"
    /\ cancel_pc' = [cancel_pc EXCEPT ![j] =
            IF ~Stored(j) THEN "idle"
            ELSE IF jobs_storage[j].status \in Uncancellable THEN "rejected"
            ELSE "checked"]
    /\ UNCHANGED <<jobVars, spawned, syncVars, storeVars, deviceVars, now,
                   parserVars, readerVars, recordVars, agent_result>>

\* a cancel that also rolls back and closes the job's open transaction
CancelWrite_rolls_back(j) ==
    /\ cancel_pc[j] = "checked"
    /\ jobs_storage' = update_job(j, [status |-> CANCELLED, completed_at |-> now,
                                      error |-> ErrCancelled])
    /\ cancel_pc' = [cancel_pc EXCEPT ![j] = "idle"]
    /\ txn' = [txn EXCEPT ![JobOwner(j)] = {}]
    /\ db_lock' = IF db_lock = JobOwner(j) THEN NoOwner ELSE db_lock
    /\ UNCHANGED <<next_job, pc, job, invoked, spawned, syncVars, kv_chats, kv_bubbles,
                   deviceVars, now, parserVars, readerVars, recordVars, agent_result>>

\* cancel_job, second half: update_job(status=CANCELLED, completed_at=now,
\* error="Cancelled by user") and the 200 response
CancelWrite(j) ==
    /\ cancel_pc[j] = "checked"
    /\ jobs_storage' = update_job(j, [status |-> CANCELLED, completed_at |-> now,
                                      error |-> ErrCancelled])
    /\ cancel_pc' = [cancel_pc EXCEPT ![j] = "idle"]
    /\ UNCHANGED <<next_job, pc, job, invoked, spawned, syncVars, storeVars, deviceVars, now,
                   parserVars, readerVars, recordVars, agent_result>>

\* ------------------------------------------------------------------ reaper

\* cleanup_old_jobs(max_age_hours), called by periodic_job_cleanup
cleanup_old_jobs(max_age_hours) ==
    [j \in JobIds |-> IF j \in ToRemove(max_age_hours) THEN NoJob ELSE jobs_storage[j]]

Reap ==
    /\ ToRemove(MaxAgeHours) # {}
    /\ jobs_storage' = cleanup_old_jobs(MaxAgeHours)
    /\ UNCHANGED <<next_job, pc, job, invoked, spawned, cancel_pc, syncVars, storeVars,
                   deviceVars, now, parserVars, readerVars, recordVars, agent_result>>

\* the clock
Tick ==
    /\ now < MaxTime
    /\ now' = now + 1
    /\ UNCHANGED <<jobVars, spawned, cancel_pc, syncVars, storeVars, deviceVars,
                   parserVars, readerVars, recordVars, agent_result>>

\* ------------------------------------------------- synchronous agent prompt

SGoto(s, p) == sync_pc' = [sync_pc EXCEPT ![s] = p]

\* send_agent_prompt: get_db_connection and ensure_chat_exists
SyncOpen(s, chat_id, request) ==
    /\ sync_pc[s] = "idle"
    /\ sync_chat' = [sync_chat EXCEPT ![s] = chat_id]
    /\ sync_request' = [sync_request EXCEPT ![s] = request]
    /\ \/ SGoto(s, "error") /\ UNCHANGED kv_chats
       \/ IF kv_chats[chat_id].exists \/ CanWrite(SyncOwner(s))
          THEN kv_chats' = ensure_chat_exists(chat_id) /\ SGoto(s, "s_save_user")
          ELSE UNCHANGED kv_chats /\ SGoto(s, "error")
    /\ UNCHANGED <<jobVars, spawned, cancel_pc, kv_bubbles, txn, db_lock, deviceVars, now,
                   parserVars, readerVars, recordVars, agent_result>>

\* BEGIN TRANSACTION, create and validate the user bubble, save it
SyncSaveUser(s) ==
    /\ sync_pc[s] = "s_save_user"
    /\ LET o == SyncOwner(s)
           user_bubble == create_bubble_data(BubbleId(o, 1), 1, sync_request[s].prompt)
           w == save_message_to_db(o, sync_chat[s], user_bubble)
       IN IF validate_bubble_structure(user_bubble) /\ CanWrite(o)
          THEN /\ txn' = [txn EXCEPT ![o] = w.pending]
               /\ kv_bubbles' = w.committed
               /\ db_lock' = o
               /\ SGoto(s, "s_agent")
          ELSE /\ UNCHANGED <<txn, kv_bubbles, db_lock>>
               /\ SGoto(s, "error")
    /\ UNCHANGED <<jobVars, spawned, cancel_pc, sync_chat, sync_request, kv_chats,
                   deviceVars, now, parserVars, readerVars, recordVars, agent_result>>

\* run_cursor_agent returns; not success: rollback, close, 500
SyncAgent(s) ==
    /\ sync_pc[s] = "s_agent"
    /\ spawned' = [spawned EXCEPT ![SyncOwner(s)] =
                        run_cursor_agent(sync_request[s].model)]
    /\ \E success \in {ok \in BOOLEAN :
                            ok => run_cursor_agent(sync_request[s].model) # "none"} :
        IF success
        THEN SGoto(s, "s_persist") /\ UNCHANGED <<kv_bubbles, txn, db_lock>>
        ELSE /\ kv_bubbles' = rollback(SyncOwner(s))
             /\ txn' = [txn EXCEPT ![SyncOwner(s)] = {}]
             /\ db_lock' = NoOwner
             /\ SGoto(s, "error")
    /\ UNCHANGED <<jobVars, cancel_pc, sync_chat, sync_request, kv_chats,
                   deviceVars, now, parserVars, readerVars, recordVars, agent_result>>

\* create and validate the assistant bubble, save it, update the chat
\* metadata, commit; any error rolls back
SyncPersist(s) ==
    /\ sync_pc[s] = "s_persist"
    /\ LET o == SyncOwner(s)
           assistant_bubble == create_bubble_data(BubbleId(o, 2), 2, AnswerText)
           w == save_message_to_db(o, sync_chat[s], assistant_bubble)
       IN \/ /\ validate_bubble_structure(assistant_bubble)
             /\ kv_chats[sync_chat[s]].exists
             /\ kv_chats' = update_chat_metadata(sync_chat[s],
                               <<Header(BubbleId(o, 1), 1), Header(BubbleId(o, 2), 2)>>)
             /\ kv_bubbles' = commit(w)
             /\ SGoto(s, "success")
          \/ /\ kv_bubbles' = rollback(o)
             /\ UNCHANGED kv_chats
             /\ SGoto(s, "error")
    /\ txn' = [txn EXCEPT ![SyncOwner(s)] = {}]
    /\ db_lock' = NoOwner
    /\ UNCHANGED <<jobVars, spawned, cancel_pc, sync_chat, sync_request, deviceVars, now,
                   parserVars, readerVars, recordVars, agent_result>>

\* ----------------------------------------------------- job details endpoint

\* get_job_details: get_job hands out the stored Job object itself, and
\* job.to_dict() and job.elapsed_seconds() read its fields one after the
\* other outside jobs_lock.  MutableFields is the order in which
\* dataclasses.asdict copies the fields an update can change.
MutableFields ==
    <<"status", "started_at", "completed_at", "result", "error",
      "user_bubble_id", "assistant_bubble_id">>

\* get_job(job_id); the fields no update changes are copied along
ReadGet(j) ==
    /\ reader.pc \in {"idle", "returned"}
    /\ Stored(j)
    /\ reader' = [pc |-> "asdict", job_id |-> j,
                  data |-> [NoData EXCEPT !.prompt = jobs_storage[j].prompt,
                                          !.model = jobs_storage[j].model,
                                          !.chat_id = jobs_storage[j].chat_id,
                                          !.copied = 0]]
    /\ UNCHANGED <<otherVars, parserVars>>

\* asdict(self): the copy of the next field
ReadField ==
    /\ reader.pc = "asdict"
    /\ Stored(reader.job_id)
    /\ LET i == reader.data.copied + 1
           f == MutableFields[i]
       IN reader' = [reader EXCEPT
                !.data = [@ EXCEPT ![f] = jobs_storage[reader.job_id][f],
                                   !.copied = i],
                !.pc = IF i = Len(MutableFields) THEN "status" ELSE "asdict"]
    /\ UNCHANGED <<otherVars, parserVars>>

\* data['status'] = self.status.value: the status is read a second time
ReadStatus ==
    /\ reader.pc = "status"
    /\ Stored(reader.job_id)
    /\ reader' = [reader EXCEPT !.data.status = jobs_storage[reader.job_id].status,
                                !.pc = "elapsed"]
    /\ UNCHANGED <<otherVars, parserVars>>

\* response['elapsed_seconds'] = job.elapsed_seconds(): None without
\* started_at, else a number; the response is returned
ReadElapsed ==
    /\ reader.pc = "elapsed"
    /\ Stored(reader.job_id)
    /\ reader' = [reader EXCEPT
            !.data.elapsed_seconds =
                IF jobs_storage[reader.job_id].started_at = NoTime THEN "None"
                ELSE "number",
            !.pc = "returned"]
    /\ UNCHANGED <<otherVars, parserVars>>

\* ----------------------------------------------------------- parser calls

\* parser.parse_stream(stream_output) on the instance at hand; reused tells
\* that the instance still held what an earlier call had collected
ParseStream(stream_output) ==
    LET r == parse_stream(parser, stream_output)
    IN /\ parser' = r.self
       /\ stream' = stream_output
       /\ parsed' = [result |-> r.result, raised |-> r.raised, called |-> TRUE,
                     reused |-> parser # NewParser]
       /\ UNCHANGED <<otherVars, readerVars>>

\* ------------------------------------------------- records and validator

MaxMissing == 2     \* keys a dict handed to a function may lack

\* the sets of at most MaxMissing keys of a dict
MissingKeys(dict) == {keys \in SUBSET DOMAIN dict : Cardinality(keys) <= MaxMissing}

\* a caller builds a turn record; the record may come without some keys (a
\* record of another writer, or of an older envelope)
MakeBubble(message_type, text) ==
    LET bubble_data == create_bubble_data(BubbleId(JobOwner(1), message_type),
                                          message_type, text)
    IN /\ \E keys \in MissingKeys(bubble_data) :
            bubble' = [data |-> Without(bubble_data, keys), checked |-> FALSE,
                       valid |-> FALSE]
       /\ UNCHANGED <<engineVars, parserVars, readerVars, composer>>

\* validate_bubble_structure(bubble_data)
Validate ==
    /\ DOMAIN bubble.data # {}
    /\ ~bubble.checked
    /\ bubble' = [bubble EXCEPT !.checked = TRUE,
                                !.valid = validate_bubble_structure(bubble.data)]
    /\ UNCHANGED <<engineVars, parserVars, readerVars, composer>>

\* a composerData row as the store holds it: the document ensure_chat_exists
\* writes, or one of a session that was initialized without some fields
StoreMetadata(chat_id) ==
    /\ \E keys \in MissingKeys(chat_metadata(chat_id, now)) :
         LET metadata == Without(chat_metadata(chat_id, now), keys)
         IN composer' = [metadata |-> metadata, stored |-> metadata,
                         updated |-> FALSE]
    /\ UNCHANGED <<engineVars, parserVars, readerVars, bubble>>

\* update_chat_metadata on that row, with the two headers of one prompt
UpdateMetadata(owner) ==
    /\ DOMAIN composer.stored # {}
    /\ ~composer.updated
    /\ composer' = [composer EXCEPT
            !.metadata = metadata_after_update(composer.stored,
                            <<Header(BubbleId(owner, 1), 1),
                              Header(BubbleId(owner, 2), 2)>>, now),
            !.updated = TRUE]
    /\ UNCHANGED <<engineVars, parserVars, readerVars, bubble>>

\* ------------------------------------------------------------------- Next

\* the job engine: submissions, background tasks, cancels, reaper, clock
Next ==
    \/ \E c \in JobChats : Submit(c, UsualRequest)
    \/ \E j \in JobIds :
        \/ Lookup(j)
        \/ LClaim(j) \/ LOpen(j) \/ LSaveUser(j) \/ LAgent(j, UsualOutput) \/ LPersist(j)
        \/ LComplete(j) \/ LFail(j)
        \/ RClaim(j) \/ RDevice(j) \/ RExec(j, UsualOutput) \/ RMeta(j) \/ RLastSeen(j)
        \/ RComplete(j) \/ RFail(j)
        \/ CancelCheck(j) \/ CancelWrite(j)
    \/ Reap
    \/ Tick

Spec == Init /\ [][Next]_vars

\* the writers of the conversation store: local jobs and synchronous prompts
StoreNext ==
    \/ \E c \in SyncChats : Submit(c, UsualRequest)
    \/ \E j \in JobIds :
        \/ Lookup(j)
        \/ LClaim(j) \/ LOpen(j) \/ LSaveUser(j) \/ LAgent(j, UsualOutput) \/ LPersist(j)
        \/ LComplete(j) \/ LFail(j)
    \/ \E s \in SyncIds :
        \/ \E c \in SyncChats : SyncOpen(s, c, UsualRequest)
        \/ SyncSaveUser(s) \/ SyncAgent(s) \/ SyncPersist(s)

StoreSpec == Init /\ [][StoreNext]_vars

\* the agent run of the job has been started and has not returned
AgentInFlight(j) == pc[j] \in {"l_agent", "r_exec"}

\* a cancel request that arrives and is answered while the agent runs
CancelInFlight(j) ==
    /\ AgentInFlight(j)
    /\ CancelCheck(j) \/ CancelWrite(j)

\* jobs on a local chat and on a registered device, cancelled in flight
CancelNext ==
    \/ \E c \in {"c1", "r1"} : Submit(c, UsualRequest)
    \/ \E j \in JobIds :
        \/ Lookup(j)
        \/ LClaim(j) \/ LOpen(j) \/ LSaveUser(j) \/ LAgent(j, UsualOutput) \/ LPersist(j)
        \/ LComplete(j) \/ LFail(j)
        \/ RClaim(j) \/ RDevice(j) \/ RExec(j, UsualOutput) \/ RMeta(j) \/ RLastSeen(j)
        \/ RComplete(j) \/ RFail(j)
        \/ CancelInFlight(j)

CancelSpec == Init /\ [][CancelNext]_vars

\* the requests as clients send them: any prompt, any model, to a local chat
\* and to a chat on a registered device, asynchronous and synchronous
RequestNext ==
    \/ \E c \in {"c1", "r1"} : \E request \in AgentPromptRequest : Submit(c, request)
    \/ \E j \in JobIds :
        \/ Lookup(j)
        \/ LClaim(j) \/ LOpen(j) \/ LSaveUser(j) \/ LAgent(j, UsualOutput) \/ LPersist(j)
        \/ LComplete(j) \/ LFail(j)
        \/ RClaim(j) \/ RDevice(j) \/ RExec(j, UsualOutput) \/ RMeta(j) \/ RLastSeen(j)
        \/ RComplete(j) \/ RFail(j)
    \/ \E s \in SyncIds :
        \/ \E request \in AgentPromptRequest : SyncOpen(s, "c1", request)
        \/ SyncSaveUser(s) \/ SyncAgent(s) \/ SyncPersist(s)

RequestSpec == Init /\ [][RequestNext]_vars

\* one parser, called again and again on any stdout (its first call is the
\* call parse_cursor_agent_output makes on a parser of its own)
ParserNext ==
    \E stream_output \in Streams : ParseStream(stream_output)

ParserSpec == Init /\ [][ParserNext]_vars

\* the engine on a local chat and on a chat of a registered device, with
\* agent runs that print any stdout
OutputNext ==
    \/ \E c \in {"c1", "r1"} : Submit(c, UsualRequest)
    \/ \E j \in JobIds :
        \/ Lookup(j)
        \/ LClaim(j) \/ LOpen(j) \/ LSaveUser(j) \/ LPersist(j)
        \/ LComplete(j) \/ LFail(j)
        \/ RClaim(j) \/ RDevice(j) \/ RMeta(j) \/ RLastSeen(j)
        \/ RComplete(j) \/ RFail(j)
        \/ \E stream_output \in Outputs :
            LAgent(j, stream_output) \/ RExec(j, stream_output)

OutputSpec == Init /\ [][OutputNext]_vars

\* the engine and a client that polls GET /jobs/{job_id} while jobs run
ReaderNext ==
    \/ \E c \in {"c1", "r1"} : Submit(c, UsualRequest)
    \/ \E j \in JobIds :
        \/ Lookup(j)
        \/ LClaim(j) \/ LOpen(j) \/ LSaveUser(j) \/ LAgent(j, UsualOutput) \/ LPersist(j)
        \/ LComplete(j) \/ LFail(j)
        \/ RClaim(j) \/ RDevice(j) \/ RExec(j, UsualOutput) \/ RMeta(j) \/ RLastSeen(j)
        \/ RComplete(j) \/ RFail(j)
        \/ ReadGet(j)
    \/ ReadField \/ ReadStatus \/ ReadElapsed

ReaderSpec == Init /\ [][ReaderNext]_vars

\* jobs on a local chat and on a registered device, with agent runs that
\* print any stdout and cancel requests that arrive at any moment
CancelAnytimeNext ==
    \/ \E c \in {"c1", "r1"} : Submit(c, UsualRequest)
    \/ \E j \in JobIds :
        \/ Lookup(j)
        \/ LClaim(j) \/ LOpen(j) \/ LSaveUser(j) \/ LPersist(j)
        \/ LComplete(j) \/ LFail(j)
        \/ RClaim(j) \/ RDevice(j) \/ RMeta(j) \/ RLastSeen(j)
        \/ RComplete(j) \/ RFail(j)
        \/ \E stream_output \in Outputs :
            LAgent(j, stream_output) \/ RExec(j, stream_output)
        \/ CancelCheck(j) \/ CancelWrite(j)

CancelAnytimeSpec == Init /\ [][CancelAnytimeNext]_vars

\* the life of a local job from its submission to its removal: the engine,
\* cancel requests at any moment, the reaper and the clock
LifecycleNext ==
    \/ Submit("c1", UsualRequest)
    \/ \E j \in JobIds :
        \/ Lookup(j)
        \/ LClaim(j) \/ LOpen(j) \/ LSaveUser(j) \/ LAgent(j, UsualOutput) \/ LPersist(j)
        \/ LComplete(j) \/ LFail(j)
        \/ CancelCheck(j) \/ CancelWrite(j)
    \/ Reap
    \/ Tick

LifecycleSpec == Init /\ [][LifecycleNext]_vars

\* local jobs with any prompt, whose agent runs print any stdout
TurnsNext ==
    \/ \E prompt \in Prompts : Submit("c1", [prompt |-> prompt, model |-> NULL])
    \/ \E j \in JobIds :
        \/ Lookup(j)
        \/ LClaim(j) \/ LOpen(j) \/ LSaveUser(j) \/ LPersist(j)
        \/ LComplete(j) \/ LFail(j)
        \/ \E stream_output \in Outputs : LAgent(j, stream_output)

TurnsSpec == Init /\ [][TurnsNext]_vars

\* the validator on turn records with and without their keys
ValidatorNext ==
    \/ \E message_type \in {1, 2} : MakeBubble(message_type, AnswerText)
    \/ Validate

ValidatorSpec == Init /\ [][ValidatorNext]_vars

\* update_chat_metadata on rows with and without their fields
MetadataNext ==
    \/ StoreMetadata("c1")
    \/ UpdateMetadata(JobOwner(1))
    \/ Tick

MetadataSpec == Init /\ [][MetadataNext]_vars

\* ------------------------------------------------------------- properties

StoredJobs == {j \in JobIds : Stored(j)}

\* the committed turn record with this id under this chat exists
InStore(chat_id, bubble_id) ==
    \E r \in kv_bubbles : r.chat_id = chat_id /\ r.value.bubbleId = bubble_id

\* the committed conversation index of some chat lists this id
InIndex(bubble_id) ==
    \E c \in Chats : \E i \in 1..Len(kv_chats[c].headers) :
        kv_chats[c].headers[i].bubbleId = bubble_id

\* C1: once a stored job's status is completed, failed or cancelled, no step
\* of the engine, of cancel_job or of cleanup_old_jobs changes the status.
C1_TerminalAbsorbing ==
    [][\A j \in JobIds :
        (Stored(j) /\ jobs_storage[j].status \in Terminal /\ jobs_storage'[j].status # "absent")
            => jobs_storage'[j].status = jobs_storage[j].status]_vars

\* C2: the first terminal status written wins: a later terminal write (the
\* engine's completed/failed or cancel_job's cancelled) never replaces it.
C2_FirstTerminalWriterWins ==
    [][\A j \in JobIds :
        (jobs_storage[j].status \in Terminal /\ jobs_storage'[j].status \in Terminal)
            => jobs_storage'[j].status = jobs_storage[j].status]_vars

\* a step of the cancel request for job j
CancelStep(j) == cancel_pc'[j] # cancel_pc[j]

\* C3: a cancel_job request acting on a job whose status is terminal is
\* answered with an error and leaves the job as it was.
C3_CancelTerminalRejected ==
    [][\A j \in JobIds :
        (Stored(j) /\ jobs_storage[j].status \in Terminal /\ CancelStep(j))
            => (cancel_pc'[j] = "rejected" /\ jobs_storage'[j] = jobs_storage[j])]_vars

\* C4: every completed job, local or remote, carries both bubble ids, and a
\* turn record with each id is committed under the job's chat.
C4_CompletedHasBothTurns ==
    \A j \in StoredJobs :
        jobs_storage[j].status = COMPLETED =>
            /\ jobs_storage[j].user_bubble_id # NoBubble
            /\ jobs_storage[j].assistant_bubble_id # NoBubble
            /\ InStore(jobs_storage[j].chat_id, jobs_storage[j].user_bubble_id)
            /\ InStore(jobs_storage[j].chat_id, jobs_storage[j].assistant_bubble_id)

\* C5: for every failed job the committed store holds no turn record and no
\* conversation-index entry made by that job.
C5_FailedLeavesNoTurns ==
    \A j \in StoredJobs :
        jobs_storage[j].status = FAILED =>
            \A type \in {1, 2} :
                /\ ~\E r \in kv_bubbles : r.value.bubbleId = BubbleId(JobOwner(j), type)
                /\ ~InIndex(BubbleId(JobOwner(j), type))

\* a local job failed after its agent run: its user turn had been inserted
C5_Witness ==
    \E j \in StoredJobs :
        /\ jobs_storage[j].status = FAILED
        /\ jobs_storage[j].error = ErrAgentFailed
        /\ invoked[j] = "local"

\* C6: in every committed state, for jobs and for synchronous prompts, the
\* user turn of a prompt is visible if and only if its assistant turn is.
C6_TurnsVisibleTogether ==
    \A o \in Owners :
        (\E r \in kv_bubbles : r.value.bubbleId = BubbleId(o, 1))
            <=> (\E r \in kv_bubbles : r.value.bubbleId = BubbleId(o, 2))

\* a synchronous prompt committed both turns while a job's agent run failed
\* and its user turn was rolled back
C6_Witness ==
    /\ \E s \in SyncIds : /\ sync_pc[s] = "success"
                          /\ InStore(sync_chat[s], BubbleId(SyncOwner(s), 1))
                          /\ InStore(sync_chat[s], BubbleId(SyncOwner(s), 2))
    /\ \E j \in JobIds : pc[j] = "l_fail_agent"

\* C7: every created job reaches a terminal status; stated on finished
\* tasks: once the background task of a stored job has ended, the job's
\* status is terminal.
C7_FinishedTaskIsTerminal ==
    \A j \in StoredJobs : pc[j] = "done" => jobs_storage[j].status \in Terminal

\* C8: a job with a terminal status never has both result and error set.
C8_ResultErrorExclusive ==
    \A j \in StoredJobs :
        jobs_storage[j].status \in Terminal =>
            ~(jobs_storage[j].result # NULL /\ jobs_storage[j].error # NULL)

\* C9: a job whose completed_at is set has a terminal status.
C9_CompletedAtOnlyTerminal ==
    \A j \in StoredJobs :
        jobs_storage[j].completed_at # NoTime => jobs_storage[j].status \in Terminal

\* the chats bound to a device id the registry lacks
UnregisteredChats ==
    {c \in Chats : remote_chats[c].bound /\ get_device(remote_chats[c].device_id) = NULL}

\* C10: a job on a chat bound to an unregistered device ends failed with the
\* device-not-found error, no ssh process is started for it, and the remote
\* chat and the device rows stay as they were.  (A job the engine never
\* claimed, and a device database that cannot be read, are left aside.)
C10_UnregisteredDeviceFails ==
    \A j \in StoredJobs :
        (job[j].chat_id \in UnregisteredChats) =>
            /\ invoked[j] # "remote"
            /\ remote_chats[job[j].chat_id].message_count = 0
            /\ remote_chats[job[j].chat_id].last_message_preview = NULL
            /\ devices[remote_chats[job[j].chat_id].device_id].last_seen = NoTime
            /\ (pc[j] = "done" /\ jobs_storage[j].started_at # NoTime) =>
                \/ jobs_storage[j].status = FAILED /\ jobs_storage[j].error = ErrDeviceNotFound
                \/ jobs_storage[j].error = ErrRemoteExc

\* C11: no stored job whose model is outside AVAILABLE_MODELS is ever in
\* status processing (such a submission is rejected when it is made).
C11_InvalidModelNeverProcessing ==
    \A j \in StoredJobs :
        jobs_storage[j].model \notin AVAILABLE_MODELS =>
            jobs_storage[j].status # PROCESSING

\* C12: on the local and on the remote path, no command is handed to
\* subprocess.run with a --model outside AVAILABLE_MODELS.
C12_NoSpawnWithUnlistedModel ==
    \A o \in Owners : spawned[o] \in AVAILABLE_MODELS \cup {"none"}

\* the turn records an owner has inserted, committed or not
Written(o) ==
    txn[o] \cup {r \in kv_bubbles : r.value.bubbleId \in {BubbleId(o, 1), BubbleId(o, 2)}}

\* C13: for a submission with the empty prompt, synchronous or asynchronous,
\* the agent is never invoked and no turn record is ever inserted.
C13_EmptyPromptRejected ==
    /\ \A s \in SyncIds :
        (sync_pc[s] # "idle" /\ sync_request[s].prompt = "") =>
            /\ spawned[SyncOwner(s)] = "none"
            /\ Written(SyncOwner(s)) = {}
    /\ \A j \in StoredJobs :
        jobs_storage[j].prompt = "" =>
            /\ invoked[j] = "none"
            /\ spawned[JobOwner(j)] = "none"
            /\ Written(JobOwner(j)) = {}

\* C14: every call of parse_stream returns (it never raises), and the text
\* of the dict it returns is a str, never None.
C14_ParseStreamTotal ==
    parsed.called => (~parsed.raised /\ parsed.result.text.tag = "str")

\* what a parser fresh from __init__ makes of the last stream_output
FreshOutcome == parse_stream(NewParser, stream)

\* C15: whatever the instance was called on before, parse_stream gives for
\* a stream_output the text, thinking and tool_calls a new parser gives.
C15_ParseStreamHistoryFree ==
    parsed.called =>
        /\ parsed.raised = FreshOutcome.raised
        /\ parsed.result.text = FreshOutcome.result.text
        /\ parsed.result.thinking = FreshOutcome.result.thinking
        /\ parsed.result.tool_calls = FreshOutcome.result.tool_calls

\* an instance that still held messages, thinking, tool calls or a result
\* of an earlier call was called again and returned a text collected from
\* the new stream_output
C15_Witness ==
    /\ parsed.called /\ parsed.reused /\ ~parsed.raised
    /\ parsed.result.text # Str(<<>>)
    /\ parsed.result.thinking # PyNone

\* the events of a stream_output, in order, that are results of success
SuccessResults(lines) ==
    SelectSeq(lines, LAMBDA l : l.kind = "object" /\ l.type = "result"
                                 /\ l.subtype = "success")

\* the texts of the assistant events of a stream_output, in order
AssistantTexts(lines) ==
    LET events == SelectSeq(lines, LAMBDA l : l.kind = "object" /\ l.type = "assistant"
                                             /\ l.nested = "dict" /\ l.text.s # <<>>)
    IN [i \in 1..Len(events) |-> events[i].text.s]

\* C16: when the stream holds a result event of subtype success, the text
\* is that event's result text (of the last one, if there are several),
\* also when it is empty; otherwise the text is the assistant texts joined
\* in order.
C16_ResultOverridesMessages ==
    (parsed.called /\ ~parsed.raised) =>
        LET results == SuccessResults(stream)
        IN IF results # <<>>
           THEN parsed.result.text = results[Len(results)].text
           ELSE parsed.result.text = Str(join(<<"\n\n">>, AssistantTexts(stream)))

\* C17: a local job opens no store transaction and inserts no turn record
\* before its agent run has returned.
C17_NoStoreWriteBeforeAgentReturns ==
    \A j \in JobIds :
        (pc[j] \in {"l_claim", "l_open", "l_save_user", "l_agent"}) =>
            /\ Written(JobOwner(j)) = {}
            /\ db_lock # JobOwner(j)

\* the job is the only request that ever named its chat
OnlyRequestOn(j, chat_id) ==
    /\ \A k \in StoredJobs \ {j} : jobs_storage[k].chat_id # chat_id
    /\ \A s \in SyncIds : sync_pc[s] = "idle" \/ sync_chat[s] # chat_id

\* C18: when a job on a session the store did not hold ends failed, the
\* store is as it was before the job: no metadata row of the session, no
\* turn record.
C18_FailedJobLeavesNoSession ==
    \A j \in StoredJobs :
        (/\ jobs_storage[j].status = FAILED
         /\ jobs_storage[j].chat_id = "c2"
         /\ OnlyRequestOn(j, "c2")) =>
            /\ kv_chats["c2"] = NoMetadata
            /\ kv_bubbles = {}

\* C19: a job whose cancel_job request succeeded while its agent run was in
\* flight has status cancelled once its background task has ended.  (The
\* error text of cancel_job marks the request that succeeded.)
C19_CancelledInFlightEndsCancelled ==
    \A j \in StoredJobs :
        (pc[j] = "done" /\ jobs_storage[j].error = ErrCancelled) =>
            jobs_storage[j].status = CANCELLED

\* the job is terminal and its completed_at is older than the cutoff
Expired(j) ==
    /\ Stored(j)
    /\ jobs_storage[j].status \in Terminal
    /\ jobs_storage[j].completed_at # NoTime
    /\ jobs_storage[j].completed_at < now - MaxAgeHours

\* C20: a step that removes a job from the job store removes every expired
\* job and no other, and leaves the jobs it keeps as they were.
C20_ReaperRemovesExactlyExpired ==
    [][(\E j \in JobIds : Stored(j) /\ jobs_storage'[j] = NoJob) =>
        \A j \in JobIds :
            IF Expired(j) THEN jobs_storage'[j] = NoJob
            ELSE jobs_storage'[j] = jobs_storage[j]]_vars

\* the reaper has removed a job and kept a job that is processing although
\* its completed_at is older than the cutoff
C20_Witness ==
    \E j, k \in JobIds :
        /\ j <= next_job /\ ~Stored(j)
        /\ Stored(k)
        /\ jobs_storage[k].status = PROCESSING
        /\ jobs_storage[k].completed_at # NoTime
        /\ jobs_storage[k].completed_at < now - MaxAgeHours

\* C21: a response of get_job_details with status completed carries the
\* result and completed_at, and one with status failed carries the error.
C21_ReaderSeesWholeUpdate ==
    reader.pc = "returned" =>
        /\ reader.data.status = COMPLETED =>
                (reader.data.result # NULL /\ reader.data.completed_at # NoTime)
        /\ reader.data.status = FAILED => reader.data.error # NULL

\* the chat a job or a synchronous prompt writes to
ChatOf(o) == IF o[1] = "job" THEN job[o[2]].chat_id ELSE sync_chat[o[2]]

\* the prompt's transaction has been committed
Persisted(o) ==
    IF o[1] = "job"
    THEN \/ pc[o[2]] = "l_complete"
         \/ pc[o[2]] = "done" /\ jobs_storage[o[2]].status = COMPLETED
    ELSE sync_pc[o[2]] = "success"

\* C22: the conversation index of every session lists each committed turn
\* id of the session exactly once, every user entry is directly followed by
\* the assistant entry of the same prompt, and the index has two entries per
\* persisted prompt.
C22_IndexListsEveryTurnOnce ==
    \A c \in Chats :
        LET h == kv_chats[c].headers
        IN /\ \A i, k \in 1..Len(h) : h[i].bubbleId = h[k].bubbleId => i = k
           /\ {h[i].bubbleId : i \in 1..Len(h)}
                = {r.value.bubbleId : r \in {x \in kv_bubbles : x.chat_id = c}}
           /\ Len(h) = 2 * Cardinality({o \in Owners : Persisted(o) /\ ChatOf(o) = c})
           /\ \A i \in 1..Len(h) :
                IF i % 2 = 1
                THEN /\ h[i].type = 1
                     /\ i < Len(h)
                     /\ h[i + 1] = Header(<<h[i].bubbleId[1], h[i].bubbleId[2], 2>>, 2)
                ELSE h[i].type = 2

\* a job and a synchronous prompt, or two jobs, have persisted their turns
\* on the same session, one after the other
C22_Witness ==
    \E c \in Chats :
        /\ Len(kv_chats[c].headers) = 4
        /\ Cardinality({o \in Owners : Persisted(o) /\ ChatOf(o) = c}) = 2

\* C23: no local job takes its failure exit at the INSERT of its user turn
\* because a job on another session holds the write transaction of the
\* store open while its agent runs.
C23_JobsOnOtherSessionsIndependent ==
    [][\A j, k \in JobIds :
        ~(/\ pc[j] = "l_save_user" /\ pc'[j] = "l_fail_exc"
          /\ pc[k] = "l_agent" /\ db_lock = JobOwner(k)
          /\ job[k].chat_id # job[j].chat_id)]_vars

\* the tool_call events of a stream_output with subtype completed, in order
CompletedToolCalls(lines) ==
    SelectSeq(lines, LAMBDA l : l.kind = "object" /\ l.type = "tool_call"
                                 /\ l.subtype = "completed")

\* C24: tool_calls holds one record for every tool_call event with subtype
\* completed and none for any other event; it is None (the empty list here)
\* exactly when the stream has no completed tool_call event.
C24_OneRecordPerCompletedToolCall ==
    (parsed.called /\ ~parsed.raised) =>
        Len(parsed.result.tool_calls) = Len(CompletedToolCalls(stream))

\* the texts of the thinking events of subtype delta, in order
DeltaTexts(lines) ==
    LET events == SelectSeq(lines, LAMBDA l : l.kind = "object" /\ l.type = "thinking"
                                             /\ l.subtype = "delta" /\ Truthy(l.text))
    IN [i \in 1..Len(events) |-> events[i].text.s]

\* C25: thinking is the texts of the thinking events of subtype delta joined
\* in order, whatever other events stand between them, and None when no
\* delta carries text.
C25_ThinkingIsDeltasJoined ==
    (parsed.called /\ ~parsed.raised) =>
        parsed.result.thinking =
            IF DeltaTexts(stream) = <<>> THEN PyNone
            ELSE Str(join(<<>>, DeltaTexts(stream)))

\* the event types _process_event has a handler for
HandledTypes == {"thinking", "tool_call", "assistant", "result"}

\* a line that is blank, no JSON, or an event of a type without handler
Noise(l) ==
    \/ l.kind \in {"blank", "malformed"}
    \/ l.kind = "object" /\ l.type \notin HandledTypes

\* the stream_output without its noise lines
Denoised(lines) == SelectSeq(lines, LAMBDA l : ~Noise(l))

\* C26: blank lines, lines that are no JSON and events of a type other than
\* thinking, tool_call, assistant and result have no effect: a stream gives
\* the text, thinking and tool_calls (or the exception) that the stream
\* without these lines gives.
C26_NoiseLinesHaveNoEffect ==
    parsed.called =>
        LET clean == parse_stream(NewParser, Denoised(stream))
        IN /\ parsed.raised = clean.raised
           /\ parsed.result.text = clean.result.text
           /\ parsed.result.thinking = clean.result.thinking
           /\ parsed.result.tool_calls = clean.result.tool_calls

\* a stream with a line that is no JSON in front of an event that gives a
\* text, a thinking or a tool call
C26_Witness ==
    /\ parsed.called /\ ~parsed.raised
    /\ Len(stream) = 2
    /\ stream[1].kind = "malformed"
    /\ \/ parsed.result.text # Str(<<>>)
       \/ parsed.result.thinking # PyNone
       \/ parsed.result.tool_calls # <<>>

\* the dispatcher of the job has returned and reported failure
DispatchFailed(j) == agent_result[j].returned /\ ~agent_result[j].success

\* C27: with no cancel request, a job whose dispatcher reported failure is
\* never completed, and once its task has ended it is failed with an error,
\* without result, and with completed_at set.
C27_DispatchFailureFailsJob ==
    \A j \in StoredJobs :
        DispatchFailed(j) =>
            /\ jobs_storage[j].status # COMPLETED
            /\ pc[j] = "done" =>
                    /\ jobs_storage[j].status = FAILED
                    /\ jobs_storage[j].error # NULL
                    /\ jobs_storage[j].result = NULL
                    /\ jobs_storage[j].completed_at # NoTime

\* a remote job whose ssh run failed and a local job whose model the
\* dispatcher refused before it started a process have both ended
C27_Witness ==
    \E j, k \in StoredJobs :
        /\ pc[j] = "done" /\ DispatchFailed(j) /\ invoked[j] = "remote"
        /\ pc[k] = "done" /\ DispatchFailed(k) /\ invoked[k] = "local"
        /\ spawned[JobOwner(k)] = "none"

\* the errors of a job that the store or the device database made fail
StoreErrors == {ErrException, ErrRemoteExc}

\* C28: a job whose dispatcher reported success ends completed whatever the
\* stdout held, on the local and on the remote path.  (A job that an error
\* of the store or of the device database made fail is left aside.)
C28_ParseProblemNeverFailsJob ==
    \A j \in StoredJobs :
        (agent_result[j].success /\ pc[j] = "done") =>
            \/ jobs_storage[j].status = COMPLETED
            \/ jobs_storage[j].error \in StoreErrors

\* the stored jobs on a remote chat, and those of them that are completed
JobsOn(chat_id) == {j \in StoredJobs : jobs_storage[j].chat_id = chat_id}
CompletedOn(chat_id) == {j \in JobsOn(chat_id) : jobs_storage[j].status = COMPLETED}

\* C29: once the jobs on a remote chat have ended, the chat's message_count
\* is 2 for every completed job and nothing for a failed one, a completed
\* job has refreshed last_seen of the device, and with no completed job the
\* preview and last_seen are as they were.
C29_RemoteEffectsFollowSuccess ==
    \A c \in {x \in Chats : remote_chats[x].bound} :
        (\A j \in JobsOn(c) : pc[j] = "done") =>
            /\ remote_chats[c].message_count = 2 * Cardinality(CompletedOn(c))
            /\ CompletedOn(c) # {} =>
                    devices[remote_chats[c].device_id].last_seen # NoTime
            /\ CompletedOn(c) = {} =>
                    /\ remote_chats[c].last_message_preview = NULL
                    /\ devices[remote_chats[c].device_id].last_seen = NoTime

\* the positions at which the assistant bubble of a job, or of a
\* synchronous prompt, has not been created and validated
BeforeAssistantValidation ==
    {"l_claim", "l_open", "l_save_user", "l_agent", "l_persist", "l_fail_agent"}
SyncBeforeAssistantValidation == {"s_save_user", "s_agent", "s_persist"}

\* C30: no turn record of a job or of a synchronous prompt is inserted
\* while its assistant turn has not been validated.
C30_BothTurnsValidatedBeforeWrite ==
    /\ \A j \in JobIds :
        pc[j] \in BeforeAssistantValidation => Written(JobOwner(j)) = {}
    /\ \A s \in SyncIds :
        sync_pc[s] \in SyncBeforeAssistantValidation => Written(SyncOwner(s)) = {}


\* the fields the envelope must carry: the turn id, the role, the text, the
\* creation timestamp, the required empty collections, the capability-status
\* map, the token-count pair, the rich text, the request id, the checkpoint id
MandatoryFields ==
    {"bubbleId", "type", "text", "createdAt", "approximateLintErrors", "lints",
     "capabilities", "capabilityStatuses", "tokenCount", "richText", "requestId",
     "checkpointId"}

\* C31: validate_bubble_structure returns false for every record that lacks
\* one of the mandatory fields.
C31_MissingMandatoryFieldRejected ==
    (bubble.checked /\ \E field \in MandatoryFields : field \notin DOMAIN bubble.data)
        => ~bubble.valid

\* the fields update_chat_metadata is allowed to change
Rewritten == {"fullConversationHeadersOnly", "lastUpdatedAt"}

\* C33: after update_chat_metadata the metadata of a session that lacked
\* fields is conformant: it has a name, a rich-text document and the other
\* required fields, and every field that was present keeps its value except
\* the conversation index and the last-updated timestamp.
C33_UpdateMakesMetadataConformant ==
    composer.updated =>
        /\ {"name", "richText", "v", "hasLoaded", "text"} \cup Rewritten
                \subseteq DOMAIN composer.metadata
        /\ \A key \in DOMAIN composer.stored \ Rewritten :
                /\ key \in DOMAIN composer.metadata
                /\ composer.metadata[key] = composer.stored[key]


\* the key bubbleId:<chat_id>:<bubble_id> of a row is a key of the table
KeyIn(r, table) ==
    \E q \in table : q.chat_id = r.chat_id /\ q.value.bubbleId = r.value.bubbleId

\* C32: no step of the job engine or of the synchronous prompt path changes
\* or removes a committed turn record; a step that writes adds the two
\* records of one prompt, under keys the table did not hold.
C32_TurnsWrittenOnceNeverChanged ==
    [][/\ kv_bubbles \subseteq kv_bubbles'
       /\ LET added == kv_bubbles' \ kv_bubbles
          IN /\ Cardinality(added) \in {0, 2}
             /\ \A r \in added : ~KeyIn(r, kv_bubbles)
             /\ \A r, q \in added : r.value.bubbleId = q.value.bubbleId => r = q]_vars

\* two prompts have committed their turns on one session, the second on top
\* of the records of the first
C32_Witness ==
    \E c \in Chats :
        /\ Cardinality({r \in kv_bubbles : r.chat_id = c}) = 4
        /\ Cardinality({o \in Owners : Persisted(o) /\ ChatOf(o) = c}) = 2


\* the engine's claim step of the job: the first update_job of
\* _execute_local_job or of _execute_remote_job
ClaimStep(j) ==
    /\ pc[j] \in {"l_claim", "r_claim"}
    /\ pc'[j] \in {"l_open", "r_device"}

InvokeStep(j) ==
    /\ pc[j] \in {"l_agent", "r_exec"}
    /\ pc'[j] # pc[j]

\* C35: the agent is invoked at most once for a job, by the remote
\* dispatcher if the engine found the session bound to a remote device and
\* by the local dispatcher otherwise; never by both, never a second time.
C35_OneDispatchPerJob ==
    [][\A j \in JobIds :
        /\ invoked'[j] # invoked[j] => InvokeStep(j)
        /\ InvokeStep(j) =>
            /\ invoked[j] = "none"
            /\ invoked'[j] = IF remote_chats[job[j].chat_id].bound
                             THEN "remote" ELSE "local"]_vars

\* one job has gone through the local dispatcher and one through the remote
\* dispatcher, and both tasks have ended
C35_Witness ==
    \E j, k \in JobIds :
        /\ invoked[j] = "local" /\ pc[j] = "done"
        /\ invoked[k] = "remote" /\ pc[k] = "done"


\* C36: after every whole update_job call, a job with a terminal status has
\* completed_at set, a completed job has a result and a failed or cancelled
\* job has an error.
C36_TerminalJobsCarryOutcome ==
    \A j \in StoredJobs :
        /\ jobs_storage[j].status \in Terminal => jobs_storage[j].completed_at # NoTime
        /\ jobs_storage[j].status = COMPLETED => jobs_storage[j].result # NULL
        /\ jobs_storage[j].status \in {FAILED, CANCELLED} => jobs_storage[j].error # NULL

\* a job was cancelled while its agent ran, the agent then returned a stdout
\* without any answer text, and the engine wrote the job completed
C36_Witness ==
    \E j \in StoredJobs :
        /\ jobs_storage[j].status = COMPLETED
        /\ jobs_storage[j].result = ""
        /\ jobs_storage[j].error = ErrCancelled


\* the committed turn records under this key
Turns(chat_id, bubble_id) ==
    {r \in kv_bubbles : r.chat_id = chat_id /\ r.value.bubbleId = bubble_id}

\* C37: whenever a local job carries bubble ids, the committed user turn
\* with user_bubble_id has role 1 and the job's prompt as text, and the
\* committed assistant turn with assistant_bubble_id has role 2 and the
\* job's result as text.
C37_JobAndTurnsAgree ==
    \A j \in StoredJobs :
        LET stored == jobs_storage[j]
            user == Turns(stored.chat_id, stored.user_bubble_id)
            assistant == Turns(stored.chat_id, stored.assistant_bubble_id)
        IN (~remote_chats[stored.chat_id].bound
                /\ (stored.user_bubble_id # NoBubble
                        \/ stored.assistant_bubble_id # NoBubble)) =>
            /\ Cardinality(user) = 1
            /\ \A r \in user : r.value.type = 1 /\ r.value.text = stored.prompt
            /\ Cardinality(assistant) = 1
            /\ \A r \in assistant : r.value.type = 2 /\ r.value.text = stored.result

\* two jobs with different prompts whose agents gave different answers both
\* carry their bubble ids
C37_Witness ==
    \E j, k \in StoredJobs :
        /\ jobs_storage[j].user_bubble_id # NoBubble
        /\ jobs_storage[k].user_bubble_id # NoBubble
        /\ jobs_storage[j].prompt # jobs_storage[k].prompt
        /\ jobs_storage[j].result # jobs_storage[k].result


\* the fields of a job cancel_job may write
CancelFields == {"status", "completed_at", "error"}

\* C38: a step of cancel_job changes nothing but the status, completed_at
\* and error of the job it names: the other jobs, the conversation store
\* with its open transactions, the device registry and the position of
\* every background task stay as they were; and a job whose agent run has
\* returned with success has its two turns committed when it reaches its
\* terminal write, cancelled or not.
C38_CancelTouchesOneJobOnly ==
    /\ [][\A j \in JobIds : CancelStep(j) =>
            /\ \A k \in JobIds \ {j} : jobs_storage'[k] = jobs_storage[k]
            /\ Stored(j) = Stored(j)'
            /\ Stored(j) => \A field \in DOMAIN jobs_storage[j] \ CancelFields :
                                jobs_storage'[j][field] = jobs_storage[j][field]
            /\ <<storeVars, deviceVars, pc, job, invoked, agent_result>>'
                    = <<storeVars, deviceVars, pc, job, invoked, agent_result>>]_vars
    /\ [](\A j \in JobIds : pc[j] = "l_complete" =>
            /\ Turns(job[j].chat_id, BubbleId(JobOwner(j), 1)) # {}
            /\ Turns(job[j].chat_id, BubbleId(JobOwner(j), 2)) # {})

\* a job was cancelled after the engine had claimed it; its agent has
\* returned and the two turns of the job are committed
C38_Witness ==
    \E j \in StoredJobs :
        /\ pc[j] = "l_complete"
        /\ jobs_storage[j].status = CANCELLED
        /\ jobs_storage[j].started_at # NoTime
        /\ Turns(job[j].chat_id, BubbleId(JobOwner(j), 1)) # {}
        /\ Turns(job[j].chat_id, BubbleId(JobOwner(j), 2)) # {}


\* the job was created and is no longer in the store: get_job returns None
Removed(j) == j <= next_job /\ ~Stored(j)

\* C39: a job that cleanup_old_jobs has removed never reappears: no later
\* step, an update_job of its still-running engine run included, puts an
\* entry under its id, so get_job keeps returning not-found.
C39_RemovedJobNeverReappears ==
    [][\A j \in JobIds : Removed(j) => (Removed(j)' /\ jobs_storage'[j] = NoJob)]_vars

\* a job was cancelled while its agent ran and reaped before the agent
\* returned; its engine run has committed and stands before its terminal
\* update_job
C39_Witness ==
    \E j \in JobIds :
        /\ Removed(j)
        /\ pc[j] = "l_complete"
        /\ agent_result[j].returned

====
